---- MODULE Spec2Model ----
(***************************************************************************)
(* CloudMetar (hello.go): the METAR decoder Metar.Parse and the handler    *)
(* that calls it.  Text is a TLA+ string; a position is a 0-based offset   *)
(* as in Go, and s[lo:hi] is Slice(s, lo, hi).                             *)
(***************************************************************************)
EXTENDS Integers, Sequences, FiniteSets, TLC

(***************************************************************************)
(* Go's regexp, as far as parserStrings uses it: a backtracking matcher    *)
(* with leftmost-first choice and greedy repetition over a pattern tree.   *)
(***************************************************************************)
Digit == {"0", "1", "2", "3", "4", "5", "6", "7", "8", "9"}

Upper == {"A", "B", "C", "D", "E", "F", "G", "H", "I", "J", "K", "L", "M",
          "N", "O", "P", "Q", "R", "S", "T", "U", "V", "W", "X", "Y", "Z"}

\* \s of RE2 syntax; the reports of the model hold blanks and tabs only
Space == {" ", "\t", "\n", "\r", "\f"}

Unbounded == -1

Lit(str) == [t |-> "lit", s |-> str]

Set(S) == [t |-> "set", s |-> S]

Cat(rs) == [t |-> "cat", rs |-> rs]

Alt(rs) == [t |-> "alt", rs |-> rs]

Rep(r, lo, hi) == [t |-> "rep", r |-> r, lo |-> lo, hi |-> hi]

Opt(r) == Rep(r, 0, 1)

Plus(r) == Rep(r, 1, Unbounded)

Grp(n, r) == [t |-> "grp", n |-> n, r |-> r]

Bol == [t |-> "bol"]

Lits(strs) == Alt([i \in 1..Len(strs) |-> Lit(strs[i])])

\* the index array of a match: loc[2n], loc[2n+1] bound group n; -1 is unset
MaxLoc == 25

NoLoc == [i \in 0..MaxLoc |-> -1]

\* M(r, s, st): the ways r matches s from the state st = [i, loc], as the
\* states they end in, in the order the matcher prefers them: an earlier
\* alternative before a later one, one more repetition before stopping.
\* No repeated pattern of parserStrings matches the empty text.
RECURSIVE M(_, _, _), Each(_, _, _), Seqn(_, _, _), OneOf(_, _, _)
Each(r, s, sts) ==
    IF Len(sts) = 0 THEN <<>> ELSE M(r, s, Head(sts)) \o Each(r, s, Tail(sts))

Seqn(rs, s, sts) ==
    IF Len(rs) = 0 \/ Len(sts) = 0 THEN sts
    ELSE Seqn(Tail(rs), s, Each(Head(rs), s, sts))

OneOf(rs, s, st) ==
    IF Len(rs) = 0 THEN <<>> ELSE M(Head(rs), s, st) \o OneOf(Tail(rs), s, st)

M(r, s, st) ==
    CASE r.t = "lit" ->
           IF st.i + Len(r.s) <= Len(s) /\ SubSeq(s, st.i + 1, st.i + Len(r.s)) = r.s
           THEN <<[st EXCEPT !.i = st.i + Len(r.s)]>>
           ELSE <<>>
      [] r.t = "set" ->
           IF st.i < Len(s) /\ SubSeq(s, st.i + 1, st.i + 1) \in r.s
           THEN <<[st EXCEPT !.i = st.i + 1]>>
           ELSE <<>>
      [] r.t = "bol" -> IF st.i = 0 THEN <<st>> ELSE <<>>
      [] r.t = "cat" -> Seqn(r.rs, s, <<st>>)
      [] r.t = "alt" -> OneOf(r.rs, s, st)
      [] r.t = "rep" ->
           IF r.hi = 0 THEN <<st>>
           ELSE LET lo1 == IF r.lo > 0 THEN r.lo - 1 ELSE 0
                    hi1 == IF r.hi = Unbounded THEN Unbounded ELSE r.hi - 1
                IN Each(Rep(r.r, lo1, hi1), s, M(r.r, s, st))
                   \o (IF r.lo = 0 THEN <<st>> ELSE <<>>)
      [] r.t = "grp" ->
           LET in == M(r.r, s, st)
           IN [k \in 1..Len(in) |->
                 [in[k] EXCEPT !.loc = [@ EXCEPT ![2 * r.n] = st.i,
                                                 ![2 * r.n + 1] = in[k].i]]]

\* a pattern that begins with ^ matches at the start of the text or nowhere
Anchored(re) == re.t = "cat" /\ Len(re.rs) > 0 /\ Head(re.rs).t = "bol"

\* the leftmost position from start on at which re matches, with the match
\* preferred there; NoLoc when there is none
RECURSIVE FindFrom(_, _, _)
FindFrom(re, s, start) ==
    IF start > Len(s) \/ (start > 0 /\ Anchored(re)) THEN NoLoc
    ELSE LET a == M(re, s, [i |-> start, loc |-> NoLoc])
         IN IF Len(a) > 0 THEN [a[1].loc EXCEPT ![0] = start, ![1] = a[1].i]
            ELSE FindFrom(re, s, start + 1)

\* idx == nil in the source is IsNil(idx) here
IsNil(idx) == idx[0] = -1

FindStringSubmatchIndex(re, s) == FindFrom(re, s, 0)

\* every match of the model's patterns is non-empty, so the next search
\* starts where the last match ended
RECURSIVE FindAllFrom(_, _, _)
FindAllFrom(re, s, start) ==
    LET idx == FindFrom(re, s, start)
    IN IF IsNil(idx) \/ idx[1] = idx[0] THEN <<>>
       ELSE <<idx>> \o FindAllFrom(re, s, idx[1])

FindAllStringSubmatchIndex(re, s) == FindAllFrom(re, s, 0)

Slice(s, lo, hi) == SubSeq(s, lo + 1, hi)

From(s, lo) == SubSeq(s, lo + 1, Len(s))

\* a slice expression s[lo:hi] that Go's runtime accepts
InRange(s, lo, hi) == 0 <= lo /\ lo <= hi /\ hi <= Len(s)

(***************************************************************************)
(* parserStrings, group numbers as Go counts them (every left parenthesis  *)
(* that is not "(?:" opens a group, named or not).                         *)
(***************************************************************************)
WS == Plus(Set(Space))

D == Set(Digit)

SignOpt(n) == Opt(Grp(n, Lits(<<"M", "P">>)))

parserStrings ==
    [type |-> Cat(<<Bol, Opt(Grp(1, Lits(<<"METAR", "SPECI">>))), WS>>),
     station |-> Cat(<<Bol, Grp(1, Cat(<<Set(Upper), Rep(Set(Upper \cup Digit), 3, 3)>>)), WS>>),
     time |-> Cat(<<Bol, Grp(1, Cat(<<D, D>>)), Grp(2, Cat(<<D, D>>)),
                    Grp(3, Cat(<<D, D>>)), Opt(Lit("Z")), WS>>),
     modifier |-> Cat(<<Bol,
                        Grp(1, Alt(<<Lit("AUTO"), Lit("FINO"), Lit("NIL"), Lit("TEST"),
                                     Cat(<<Lit("COR"), Opt(Lit("R"))>>), Lit("RTD"),
                                     Cat(<<Lit("CC"), Set({"A", "B", "C", "D", "E", "F", "G"})>>)>>)),
                        WS>>),
     wind |-> Cat(<<Bol,
                    Grp(1, Alt(<<Rep(D, 3, 3), Lit("0"), Lit("///"), Lit("MMM"), Lit("VRB")>>)),
                    Grp(2, Alt(<<Cat(<<Opt(Lit("P")), Rep(Set(Digit \cup {"O"}), 2, 3)>>),
                                 Rep(Set({"/", "M"}), 2, 3)>>)),
                    Opt(Grp(3, Cat(<<Lit("G"),
                                     Grp(4, Alt(<<Rep(D, 1, 3), Rep(Set({"/", "M"}), 1, 3)>>))>>))),
                    Opt(Grp(5, Lits(<<"KT", "KMH", "MPS">>))),
                    Opt(Grp(6, Cat(<<WS, Grp(7, Rep(D, 3, 3)), Lit("V"), Grp(8, Rep(D, 3, 3))>>))),
                    WS>>),
     visibility |-> Cat(<<Grp(1, Alt(<<
                              Cat(<<Grp(2, Cat(<<SignOpt(3), Rep(D, 4, 4)>>)),
                                    Opt(Grp(4, Alt(<<Cat(<<Set({"N", "S", "E", "W"}),
                                                           Opt(Set({"E", "W"}))>>),
                                                     Lit("NDV")>>)))>>),
                              Cat(<<Grp(5, Cat(<<SignOpt(6), Grp(7, Plus(D))>>)),
                                    Opt(Grp(8, Lits(<<"SM", "KM", "M", "U">>)))>>),
                              Lit("CAVOK")>>)),
                          WS>>),
     weather |-> Cat(<<Opt(Grp(1, Plus(Grp(2, Lits(<<"-", "+", "VC">>))))),
                       Opt(Grp(3, Plus(Grp(4, Lits(<<"MI", "PR", "BC", "DR", "BL", "SH", "TS", "FZ">>))))),
                       Plus(Grp(5, Cat(<<Opt(Lit(":")),
                           Alt(<<Cat(<<Grp(6, Plus(Grp(7, Lits(<<"DZ", "RA", "SN", "SG", "IC",
                                                                  "PL", "GR", "GS", "UP">>)))),
                                       Opt(Grp(8, Lits(<<"BR", "FG", "FU", "VA", "DU", "SA", "HZ", "PY">>))),
                                       Opt(Grp(9, Lits(<<"PO", "SQ", "FC", "SS", "DS">>)))>>),
                                 Cat(<<Grp(10, Lits(<<"BR", "FG", "FU", "VA", "DU", "SA", "HZ", "PY">>)),
                                       Opt(Grp(11, Lits(<<"PO", "SQ", "FC", "SS", "DS">>)))>>),
                                 Grp(12, Lits(<<"PO", "SQ", "FC", "SS", "DS">>))>>)>>))),
                       WS>>),
     sky |-> Cat(<<Grp(1, Lits(<<"VV", "CLR", "SKC", "SCK", "NSC", "NCD", "BKN", "SCT", "FEW", "OVC">>)),
                   Opt(Grp(2, Rep(D, 2, 4))),
                   Opt(Grp(3, Grp(4, Cat(<<Set(Upper), Plus(Set(Upper))>>)))),
                   WS>>),
     temp |-> Cat(<<Bol,
                    Grp(1, Alt(<<Cat(<<Opt(Grp(2, Lits(<<"M", "-">>))), Plus(D)>>),
                                 Lit("//"), Lit("XX"), Lit("MM")>>)),
                    Lit("/"),
                    Opt(Grp(3, Alt(<<Cat(<<Opt(Grp(4, Lits(<<"M", "-">>))), Plus(D)>>),
                                     Lit("//"), Lit("XX"), Lit("MM")>>))),
                    WS>>),
     press |-> Cat(<<Bol,
                     Opt(Grp(1, Lits(<<"A", "Q", "QNH", "SLP">>))),
                     Grp(2, Alt(<<Rep(D, 3, 4), Lit("////")>>)),
                     Opt(Grp(3, Lit("INS"))),
                     Rep(Set(Space), 0, Unbounded)>>)]

(***************************************************************************)
(* strconv.Atoi, time.Parse with dateFormat, and time.Date.                *)
(***************************************************************************)
DigitChars == <<"0", "1", "2", "3", "4", "5", "6", "7", "8", "9">>

DigitVal(c) == (CHOOSE n \in 1..10 : DigitChars[n] = c) - 1

AllDigits(s) == \A k \in 1..Len(s) : SubSeq(s, k, k) \in Digit

RECURSIVE Value(_)
Value(s) ==
    IF Len(s) = 0 THEN 0
    ELSE Value(SubSeq(s, 1, Len(s) - 1)) * 10 + DigitVal(SubSeq(s, Len(s), Len(s)))

\* an optional sign, then digits only; the texts of the model are far from
\* the range of int
Atoi(s) ==
    LET signed == Len(s) > 0 /\ SubSeq(s, 1, 1) \in {"+", "-"}
        body == IF signed THEN From(s, 1) ELSE s
    IN IF Len(body) = 0 \/ ~AllDigits(body) THEN [err |-> TRUE, n |-> 0]
       ELSE [err |-> FALSE,
             n |-> IF SubSeq(s, 1, 1) = "-" THEN 0 - Value(body) ELSE Value(body)]

IsLeap(y) == y % 4 = 0 /\ (y % 100 # 0 \/ y % 400 = 0)

DaysIn(mo, y) ==
    IF mo = 2 THEN (IF IsLeap(y) THEN 29 ELSE 28)
    ELSE IF mo \in {4, 6, 9, 11} THEN 30 ELSE 31

BadDate == [err |-> TRUE, year |-> 0, month |-> 0]

\* time.Parse("2006/01/02 15:04", s): four digits of year, two of month, two of
\* day, an hour of one or two digits, two of minute, each in its range, and
\* nothing after
ParseDate(s) ==
    LET hlen == IF Len(s) >= 13 /\ SubSeq(s, 13, 13) \in Digit THEN 2 ELSE 1
        shaped == /\ Len(s) = 14 + hlen
                  /\ AllDigits(SubSeq(s, 1, 4)) /\ SubSeq(s, 5, 5) = "/"
                  /\ AllDigits(SubSeq(s, 6, 7)) /\ SubSeq(s, 8, 8) = "/"
                  /\ AllDigits(SubSeq(s, 9, 10)) /\ SubSeq(s, 11, 11) = " "
                  /\ AllDigits(SubSeq(s, 12, 11 + hlen))
                  /\ SubSeq(s, 12 + hlen, 12 + hlen) = ":"
                  /\ AllDigits(SubSeq(s, 13 + hlen, 14 + hlen))
        y == Value(SubSeq(s, 1, 4))
        mo == Value(SubSeq(s, 6, 7))
        d == Value(SubSeq(s, 9, 10))
        h == Value(SubSeq(s, 12, 11 + hlen))
        mi == Value(SubSeq(s, 13 + hlen, 14 + hlen))
    IN IF ~shaped THEN BadDate
       ELSE IF mo < 1 \/ mo > 12 \/ h > 23 \/ mi > 59 THEN BadDate
       ELSE IF d < 1 \/ d > DaysIn(mo, y) THEN BadDate
       ELSE [err |-> FALSE, year |-> y, month |-> mo]

\* the day of a month brought into the month's range, carrying into the
\* months before and after
RECURSIVE NormDay(_, _, _)
NormDay(y, mo, d) ==
    IF d < 1
    THEN LET py == IF mo = 1 THEN y - 1 ELSE y
             pm == IF mo = 1 THEN 12 ELSE mo - 1
         IN NormDay(py, pm, d + DaysIn(pm, py))
    ELSE IF d > DaysIn(mo, y)
    THEN NormDay(IF mo = 12 THEN y + 1 ELSE y, IF mo = 12 THEN 1 ELSE mo + 1,
                 d - DaysIn(mo, y))
    ELSE [year |-> y, month |-> mo, day |-> d]

\* time.Date(y, mo, day, hour, min, 0, 0, time.UTC): values out of range are
\* normalised, minutes into hours, hours into days, days into months
Date(y, mo, day, hour, min) ==
    LET h == hour + (min \div 60)
        ymd == NormDay(y, mo, day + (h \div 24))
    IN [year |-> ymd.year, month |-> ymd.month, day |-> ymd.day,
        hour |-> h % 24, min |-> min % 60]

(***************************************************************************)
(* The record types.                                                       *)
(***************************************************************************)
\* the zero time.Time: 1 January of year 1, 00:00 UTC
ZeroTime == [year |-> 1, month |-> 1, day |-> 1, hour |-> 0, min |-> 0]

Wind == [Vrb |-> FALSE, Dir |-> 0, Spd |-> 0, Gust |-> 0, VarFrom |-> 0, VarTo |-> 0]

Weather == [Intens |-> "", Descr |-> "", Precip |-> "", Other |-> ""]

Sky == [Cover |-> "", Height |-> 0, Cloud |-> ""]

Metar == [Station |-> "", Time |-> ZeroTime, Mod |-> "", Wind |-> Wind,
          Visibility |-> 0, Weather |-> <<>>, Sky |-> <<>>,
          Temp |-> 0, DewPt |-> 0, Pressure |-> 0]

(***************************************************************************)
(* Metar.Parse, one operator for each step.  A step takes the record and   *)
(* the text not yet consumed and gives the record and the text after it,   *)
(* with err the error Parse returns there ("" when it goes on) and panic   *)
(* set when the step ends in a run-time panic.                             *)
(***************************************************************************)
Go(m, rawMetar) == [m |-> m, rawMetar |-> rawMetar, err |-> "", panic |-> FALSE]

Fail(m, rawMetar, msg) == [m |-> m, rawMetar |-> rawMetar, err |-> msg, panic |-> FALSE]

Panic(m, rawMetar) == [m |-> m, rawMetar |-> rawMetar, err |-> "", panic |-> TRUE]

Bound(idx, a, b) == idx[a] # -1 /\ idx[b] # -1

\* the slice when both ends are bound, "" otherwise
Field(rawMetar, idx, a, b) ==
    IF Bound(idx, a, b) THEN Slice(rawMetar, idx[a], idx[b]) ELSE ""

\* the conversion of a group that is bound; a group that is not bound leaves
\* the zero value and no error
Conv(rawMetar, idx, a, b) ==
    IF Bound(idx, a, b) THEN Atoi(Slice(rawMetar, idx[a], idx[b]))
    ELSE [err |-> FALSE, n |-> 0]

TypeAt(m, rawMetar, idx) ==
    IF ~IsNil(idx) THEN Go(m, From(rawMetar, idx[1])) ELSE Go(m, rawMetar)

ParseType(m, rawMetar) ==
    TypeAt(m, rawMetar, FindStringSubmatchIndex(parserStrings["type"], rawMetar))

\* variant: a report without a station identifier is carried on to the time step
StationAtLenient(m, rawMetar, idx) ==
    IF IsNil(idx) THEN Go(m, rawMetar)
    ELSE Go([m EXCEPT !.Station = Slice(rawMetar, idx[2], idx[3])], From(rawMetar, idx[1]))

StationAt(m, rawMetar, idx) ==
    IF IsNil(idx) THEN Fail(m, rawMetar, "Error parsing station identifier")
    ELSE Go([m EXCEPT !.Station = Slice(rawMetar, idx[2], idx[3])], From(rawMetar, idx[1]))

ParseStation(m, rawMetar) ==
    StationAt(m, rawMetar, FindStringSubmatchIndex(parserStrings["station"], rawMetar))

TimeOfDay(m, rawMetar, idx, t, day, hour, min) ==
    IF day.err THEN Fail(m, rawMetar, "Error converting day in metar")
    ELSE IF hour.err THEN Fail(m, rawMetar, "Error converting hour in metar")
    ELSE IF min.err THEN Fail(m, rawMetar, "Error converting minute in metar")
    ELSE Go([m EXCEPT !.Time = Date(t.year, t.month, day.n, hour.n, min.n)],
            From(rawMetar, idx[1]))

TimeAt(m, rawMetar, idx, t) ==
    IF IsNil(idx) THEN Fail(m, rawMetar, "Error parsing metar time")
    ELSE IF t.err THEN Fail(m, rawMetar, "Error parsing message time")
    ELSE TimeOfDay(m, rawMetar, idx, t, Atoi(Slice(rawMetar, idx[2], idx[3])),
                   Atoi(Slice(rawMetar, idx[4], idx[5])),
                   Atoi(Slice(rawMetar, idx[6], idx[7])))

ParseTime(m, rawMetar, rawDate) ==
    TimeAt(m, rawMetar, FindStringSubmatchIndex(parserStrings["time"], rawMetar),
           ParseDate(rawDate))

ModifierAt(m, rawMetar, idx) ==
    IF ~IsNil(idx)
    THEN Go([m EXCEPT !.Mod = Slice(rawMetar, idx[2], idx[3])], From(rawMetar, idx[1]))
    ELSE Go(m, rawMetar)

ParseModifier(m, rawMetar) ==
    ModifierAt(m, rawMetar, FindStringSubmatchIndex(parserStrings["modifier"], rawMetar))

WindOf(m, rawMetar, idx, vrb, wdir, wspd, gust, vfrom, vto) ==
    IF ~vrb /\ wdir.err
    THEN Fail(m, rawMetar, "Error converting wind direction in metar")
    ELSE IF wspd.err THEN Fail(m, rawMetar, "Error converting wind speed in metar")
    ELSE IF gust.err THEN Fail(m, rawMetar, "Error converting gust speed in metar")
    ELSE IF vfrom.err
    THEN Fail(m, rawMetar, "Error converting variable from wind direction in metar")
    ELSE IF vto.err
    THEN Fail(m, rawMetar, "Error converting variable to wind direction in metar")
    ELSE Go([m EXCEPT !.Wind = [Vrb |-> vrb, Dir |-> IF vrb THEN 0 ELSE wdir.n,
                                Spd |-> wspd.n, Gust |-> gust.n,
                                VarFrom |-> vfrom.n, VarTo |-> vto.n]],
            From(rawMetar, idx[1]))

WindAt(m, rawMetar, idx) ==
    IF IsNil(idx) THEN Fail(m, rawMetar, "Error parsing metar wind")
    ELSE WindOf(m, rawMetar, idx, Field(rawMetar, idx, 2, 3) = "VRB",
                Conv(rawMetar, idx, 2, 3), Conv(rawMetar, idx, 4, 5),
                Conv(rawMetar, idx, 8, 9), Conv(rawMetar, idx, 14, 15),
                Conv(rawMetar, idx, 16, 17))

ParseWind(m, rawMetar) ==
    WindAt(m, rawMetar, FindStringSubmatchIndex(parserStrings["wind"], rawMetar))

VisibilityOf(m, rawMetar, idx, vis) ==
    IF vis.err THEN Fail(m, rawMetar, "Error converting visibility value in metar")
    ELSE Go([m EXCEPT !.Visibility = vis.n], From(rawMetar, idx[1]))

VisibilityAt(m, rawMetar, idx) ==
    IF IsNil(idx) \/ idx[4] = -1 \/ idx[5] = -1
    THEN Fail(m, rawMetar, "Error parsing metar visibility")
    ELSE VisibilityOf(m, rawMetar, idx, Atoi(Slice(rawMetar, idx[4], idx[5])))

ParseVisibility(m, rawMetar) ==
    VisibilityAt(m, rawMetar, FindStringSubmatchIndex(parserStrings["visibility"], rawMetar))

WeatherOf(rawMetar, idx) ==
    [Intens |-> Field(rawMetar, idx, 2, 3),
     Descr |-> Field(rawMetar, idx, 6, 7),
     Precip |-> Field(rawMetar, idx, 10, 11),
     Other |-> Field(rawMetar, idx, 16, 17)]

WeatherAt(m, rawMetar, idxs) ==
    IF Len(idxs) # 0
    THEN Go([m EXCEPT !.Weather = @ \o [k \in 1..Len(idxs) |-> WeatherOf(rawMetar, idxs[k])]],
            From(rawMetar, idxs[Len(idxs)][1]))
    ELSE Go(m, rawMetar)

ParseWeather(m, rawMetar) ==
    WeatherAt(m, rawMetar, FindAllStringSubmatchIndex(parserStrings["weather"], rawMetar))

SkyOf(rawMetar, idx, height) ==
    [Cover |-> Field(rawMetar, idx, 2, 3), Height |-> height.n,
     Cloud |-> Field(rawMetar, idx, 6, 7)]

\* the layers appended before the first layer whose height does not convert
SkyUpTo(m, rawMetar, idxs, heights, stop) ==
    [m EXCEPT !.Sky = @ \o [k \in 1..(stop - 1) |-> SkyOf(rawMetar, idxs[k], heights[k])]]

SkyLayers(m, rawMetar, idxs, heights, bad) ==
    IF bad # {}
    THEN Fail(SkyUpTo(m, rawMetar, idxs, heights, CHOOSE k \in bad : \A j \in bad : k <= j),
              rawMetar, "Error converting cloud height value in metar")
    ELSE Go(SkyUpTo(m, rawMetar, idxs, heights, Len(idxs) + 1),
            From(rawMetar, idxs[Len(idxs)][1]))

SkyHeights(m, rawMetar, idxs, heights) ==
    SkyLayers(m, rawMetar, idxs, heights, {k \in 1..Len(idxs) : heights[k].err})

SkyAt(m, rawMetar, idxs) ==
    IF Len(idxs) = 0 THEN Fail(m, rawMetar, "Error parsing metar sky")
    ELSE SkyHeights(m, rawMetar, idxs,
                    [k \in 1..Len(idxs) |-> Conv(rawMetar, idxs[k], 4, 5)])

ParseSky(m, rawMetar) ==
    SkyAt(m, rawMetar, FindAllStringSubmatchIndex(parserStrings["sky"], rawMetar))

\* the text of the value in lo..hi, its sign letter M (the group a..b) turned
\* into "-"
Signed(rawMetar, idx, lo, hi, a, b) ==
    IF Field(rawMetar, idx, a, b) = "M"
    THEN "-" \o From(Slice(rawMetar, idx[lo], idx[hi]), 1)
    ELSE Slice(rawMetar, idx[lo], idx[hi])

DewPtOf(m, rawMetar, idx, dewPt) ==
    IF dewPt.err THEN Fail(m, rawMetar, "Error converting dew point value in metar")
    ELSE Go([m EXCEPT !.DewPt = dewPt.n], From(rawMetar, idx[1]))

\* variant: the dew point takes its sign from the temperature's sign letter
DewPtAtTempSign(m, rawMetar, idx) ==
    IF ~InRange(rawMetar, idx[6], idx[7]) THEN Panic(m, rawMetar)
    ELSE DewPtOf(m, rawMetar, idx, Atoi(Signed(rawMetar, idx, 6, 7, 4, 5)))

\* rawMetar[idx[6]:idx[7]] is evaluated whether or not the group is bound
DewPtAt(m, rawMetar, idx) ==
    IF ~InRange(rawMetar, idx[6], idx[7]) THEN Panic(m, rawMetar)
    ELSE DewPtOf(m, rawMetar, idx, Atoi(Signed(rawMetar, idx, 6, 7, 8, 9)))

TempOfStep(m, rawMetar, idx, temp) ==
    IF temp.err THEN Fail(m, rawMetar, "Error converting temperature value in metar")
    ELSE DewPtAt([m EXCEPT !.Temp = temp.n], rawMetar, idx)

TempAt(m, rawMetar, idx) ==
    IF IsNil(idx) THEN Fail(m, rawMetar, "Error parsing metar temperature")
    ELSE TempOfStep(m, rawMetar, idx, Atoi(Signed(rawMetar, idx, 2, 3, 4, 5)))

ParseTemp(m, rawMetar) ==
    TempAt(m, rawMetar, FindStringSubmatchIndex(parserStrings["temp"], rawMetar))

PressOfStep(m, rawMetar, value) ==
    IF value.err THEN Fail(m, rawMetar, "Error converting pressure value in metar")
    ELSE Go([m EXCEPT !.Pressure = value.n], rawMetar)

\* variant: the value is converted whatever the unit prefix
PressAtAnyUnit(m, rawMetar, idx) ==
    IF IsNil(idx) THEN Fail(m, rawMetar, "Error parsing metar pressure")
    ELSE PressOfStep(m, rawMetar, Atoi(Slice(rawMetar, idx[4], idx[5])))

PressAt(m, rawMetar, idx) ==
    IF IsNil(idx) THEN Fail(m, rawMetar, "Error parsing metar pressure")
    ELSE IF Field(rawMetar, idx, 2, 3) = "Q"
    THEN PressOfStep(m, rawMetar, Atoi(Slice(rawMetar, idx[4], idx[5])))
    ELSE Fail(m, rawMetar, "Error interpreting metar pressure value")

ParsePress(m, rawMetar) ==
    PressAt(m, rawMetar, FindStringSubmatchIndex(parserStrings["press"], rawMetar))

StepOrder == <<"type", "station", "time", "modifier", "wind", "visibility",
               "weather", "sky", "temp", "press">>

ParseStep(step, m, rawMetar, rawDate) ==
    CASE step = "type" -> ParseType(m, rawMetar)
      [] step = "station" -> ParseStation(m, rawMetar)
      [] step = "time" -> ParseTime(m, rawMetar, rawDate)
      [] step = "modifier" -> ParseModifier(m, rawMetar)
      [] step = "wind" -> ParseWind(m, rawMetar)
      [] step = "visibility" -> ParseVisibility(m, rawMetar)
      [] step = "weather" -> ParseWeather(m, rawMetar)
      [] step = "sky" -> ParseSky(m, rawMetar)
      [] step = "temp" -> ParseTemp(m, rawMetar)
      [] step = "press" -> ParsePress(m, rawMetar)

\* the whole call: the steps from the k-th on, until one returns or panics
RECURSIVE ParseFrom(_, _, _, _), ParseOn(_, _, _)
ParseOn(k, r, rawDate) ==
    IF r.panic \/ r.err # "" \/ k = Len(StepOrder) THEN r
    ELSE ParseFrom(k + 1, r.m, r.rawMetar, rawDate)

ParseFrom(k, m, rawMetar, rawDate) ==
    ParseOn(k, ParseStep(StepOrder[k], m, rawMetar, rawDate), rawDate)

Parse(m, rawMetar, rawDate) == ParseFrom(1, m, rawMetar, rawDate)

(***************************************************************************)
(* The two lines the handler reads: a reference date and a report, built   *)
(* from the groups of a report so that a property can name the group a     *)
(* step was given.                                                         *)
(***************************************************************************)
MaxWeather == 2

MaxSky == 2

MaxTrail == 3

MaxCalls == 2

RECURSIVE Num(_)
Num(n) == IF n < 10 THEN DigitChars[n + 1] ELSE Num(n \div 10) \o DigitChars[(n % 10) + 1]

Pad2(n) == IF n < 10 THEN "0" \o Num(n) ELSE Num(n)

StartsWith(s, p) == Len(p) <= Len(s) /\ SubSeq(s, 1, Len(p)) = p

RECURSIVE Join(_)
Join(toks) ==
    IF Len(toks) = 0 THEN ""
    ELSE IF Head(toks) = "" THEN Join(Tail(toks))
    ELSE LET rest == Join(Tail(toks))
         IN IF rest = "" THEN Head(toks) ELSE Head(toks) \o " " \o rest

Seqs(S, n) == UNION {[1..k -> S] : k \in 0..n}

TimeOf(d, h, mi) ==
    [txt |-> Pad2(d) \o Pad2(h) \o Pad2(mi) \o "Z", shaped |-> TRUE,
     d |-> d, h |-> h, mi |-> mi]

TimeRaw(txt) == [txt |-> txt, shaped |-> FALSE, d |-> 0, h |-> 0, mi |-> 0]

DateOf(y, mo, d, h, mi) ==
    [txt |-> Num(y) \o "/" \o Pad2(mo) \o "/" \o Pad2(d) \o " " \o Pad2(h) \o ":" \o Pad2(mi),
     valid |-> TRUE, y |-> y, mo |-> mo]

DateRaw(txt) == [txt |-> txt, valid |-> FALSE, y |-> 0, mo |-> 0]

WxOf(int, desc, prec, obsc, other) ==
    [txt |-> int \o desc \o prec \o obsc \o other,
     int |-> int, desc |-> desc, prec |-> prec, obsc |-> obsc, other |-> other]

LayerOf(cover, height, cloud) ==
    [txt |-> cover \o (IF height < 100 THEN "0" ELSE "") \o Pad2(height) \o cloud,
     cover |-> cover, height |-> height, cloud |-> cloud]

TempOf(ts, tv, ds, dv) ==
    [txt |-> ts \o Pad2(tv) \o "/" \o ds \o Pad2(dv), regular |-> TRUE,
     ts |-> ts, tv |-> tv, ds |-> ds, dv |-> dv]

TempRaw(txt) == [txt |-> txt, regular |-> FALSE, ts |-> "", tv |-> 0, ds |-> "", dv |-> 0]

\* a pressure group: its unit prefix, the text of its value, and the reading
\* the value begins with: the number its first three or four digits spell,
\* -1 when it does not begin with three digits
PressOf(unit, val) ==
    [txt |-> unit \o val.txt, given |-> TRUE, unit |-> unit, n |-> val.n]

NoPress == [txt |-> "", given |-> FALSE, unit |-> "", n |-> 0 - 1]

PressValues == {[txt |-> "1013", n |-> 1013], [txt |-> "998", n |-> 998],
                [txt |-> "10135", n |-> 1013], [txt |-> "12", n |-> 0 - 1],
                [txt |-> "////", n |-> 0 - 1]}

Types == {"", "METAR"}

Stations == {"YSSY", "YS"}

Times == {TimeOf(d, h, mi) : d \in {10, 31}, h \in {12, 25}, mi \in {34, 75}}
         \cup {TimeRaw("1012Z")}

Dates == {DateOf(2023, 6, 10, 9, 0), DateOf(2024, 2, 28, 23, 59), DateOf(2023, 12, 31, 0, 0),
          DateRaw("2023-06-10 09:00"), DateRaw("2023/13/01 00:00")}

Mods == {"", "AUTO"}

Winds == {"VRB05KT", "24015G25KT", "18010KT 150V210", "///05KT", "240P99KT",
          "24015G//KT", "CALM"}

Visibilities == {"9999", "0800", "10SM", "CAVOK", "P6000"}

WxGroups == {WxOf("-", "", "RA", "", ""), WxOf("", "", "", "BR", ""),
             WxOf("+", "TS", "RA", "BR", ""), WxOf("", "", "", "", "SQ")}

Layers == {LayerOf("FEW", 30, ""), LayerOf("BKN", 15, "CB")}

Temps == {TempOf(ts, tv, ds, 10) : ts \in {"", "M", "-"}, tv \in {5, 12}, ds \in {"", "M", "-"}}
         \cup {TempRaw("M05/"), TempRaw("MM/MM"), TempRaw("15/XX")}

Pressures == {PressOf(unit, val) : unit \in {"", "A", "Q", "QNH", "SLP"}, val \in PressValues}
             \cup {NoPress}

TrailTokens == {"NOSIG", "RA", "BKN015", "16/11", "Q1014"}

Default ==
    [type |-> "", station |-> "YSSY", time |-> TimeOf(10, 12, 34),
     date |-> DateOf(2023, 6, 10, 9, 0), mod |-> "", wind |-> "VRB05KT", vis |-> "9999",
     wx |-> <<>>, sky |-> <<LayerOf("FEW", 30, "")>>, temp |-> TempOf("", 5, "", 10),
     press |-> PressOf("Q", [txt |-> "1013", n |-> 1013]), trail |-> <<>>]

\* the reports of the model: the default report with the groups of one part
\* of it varied together
Inputs ==
    {[Default EXCEPT !.type = a, !.station = b, !.time = c, !.date = d, !.mod = e] :
        a \in Types, b \in Stations, c \in Times, d \in Dates, e \in Mods}
    \cup {[Default EXCEPT !.wind = a, !.vis = b] : a \in Winds, b \in Visibilities}
    \cup {[Default EXCEPT !.wx = a, !.sky = b] :
            a \in Seqs(WxGroups, MaxWeather), b \in Seqs(Layers, MaxSky)}
    \cup {[Default EXCEPT !.temp = a, !.press = b] : a \in Temps, b \in Pressures}
    \cup {[Default EXCEPT !.trail = a] : a \in Seqs(TrailTokens, MaxTrail)}

Txts(groups) == [k \in 1..Len(groups) |-> groups[k].txt]

Text(in) ==
    Join(<<in.type, in.station, in.time.txt, in.mod, in.wind, in.vis>>
         \o Txts(in.wx) \o Txts(in.sky) \o <<in.temp.txt, in.press.txt>> \o in.trail)

(***************************************************************************)
(* The state: the record m a call fills, the call's rawMetar and rawDate,  *)
(* its position pc, and the error it returned.  The rest is history: the   *)
(* groups the lines were built from (input), the record as the call found  *)
(* it (m0), the number of calls made on the record (calls), the record the *)
(* first call returned (first), and the steps executed with the text each  *)
(* was given (trace).                                                      *)
(***************************************************************************)
VARIABLES m, rawMetar, rawDate, pc, err, input, m0, calls, first, trace

vars == <<m, rawMetar, rawDate, pc, err, input, m0, calls, first, trace>>

Init ==
    /\ m = Metar
    /\ rawMetar = ""
    /\ rawDate = ""
    /\ pc = "idle"
    /\ err = ""
    /\ input = Default
    /\ m0 = Metar
    /\ calls = 0
    /\ first = Metar
    /\ trace = <<>>

\* the handler reads the two lines and calls Parse on a new record
handler ==
    /\ pc = "idle"
    /\ \E in \in Inputs :
          /\ input' = in
          /\ rawDate' = in.date.txt
          /\ rawMetar' = Text(in)
    /\ m' = Metar
    /\ m0' = Metar
    /\ pc' = "type"
    /\ err' = ""
    /\ calls' = 1
    /\ first' = Metar
    /\ trace' = <<>>

\* a caller that kept the record calls Parse on it again with the same lines
Again ==
    /\ pc = "returned"
    /\ err = ""
    /\ calls < MaxCalls
    /\ rawMetar' = Text(input)
    /\ m0' = m
    /\ pc' = "type"
    /\ calls' = calls + 1
    /\ trace' = <<>>
    /\ UNCHANGED <<m, rawDate, err, input, first>>

Step(step, next, r) ==
    /\ pc = step
    /\ m' = r.m
    /\ rawMetar' = r.rawMetar
    /\ err' = r.err
    /\ pc' = IF r.panic THEN "panic"
             ELSE IF r.err # "" \/ next = "returned" THEN "returned" ELSE next
    /\ first' = IF ~r.panic /\ r.err = "" /\ next = "returned" /\ calls = 1 THEN r.m
                ELSE first
    /\ trace' = Append(trace, [step |-> step, text |-> rawMetar])
    /\ UNCHANGED <<rawDate, input, m0, calls>>

Type == Step("type", "station", ParseType(m, rawMetar))

Station == Step("station", "time", ParseStation(m, rawMetar))

Time == Step("time", "modifier", ParseTime(m, rawMetar, rawDate))

Modifier == Step("modifier", "wind", ParseModifier(m, rawMetar))

WindStep == Step("wind", "visibility", ParseWind(m, rawMetar))

Visibility == Step("visibility", "weather", ParseVisibility(m, rawMetar))

WeatherStep == Step("weather", "sky", ParseWeather(m, rawMetar))

SkyStep == Step("sky", "temp", ParseSky(m, rawMetar))

Temp == Step("temp", "press", ParseTemp(m, rawMetar))

Press == Step("press", "returned", ParsePress(m, rawMetar))

Next ==
    \/ handler
    \/ Again
    \/ Type
    \/ Station
    \/ Time
    \/ Modifier
    \/ WindStep
    \/ Visibility
    \/ WeatherStep
    \/ SkyStep
    \/ Temp
    \/ Press

Spec == Init /\ [][Next]_vars

\* the action and the operator agree on what a call returns
ParseAgrees ==
    pc \in {"returned", "panic"} =>
        Parse(m0, Text(input), rawDate) =
            [m |-> m, rawMetar |-> rawMetar, err |-> err, panic |-> (pc = "panic")]

(***************************************************************************)
(* What the properties below speak of.                                     *)
(***************************************************************************)
Returned == pc = "returned"

Succeeded == pc = "returned" /\ err = ""

Failed == pc = "returned" /\ err # ""

\* the step with the given number has run in the call under way
Ran(k) == Len(trace) >= k

\* text begins with the group tok, a blank or the end of the text after it
AtGroup(text, tok) ==
    /\ tok # ""
    /\ StartsWith(text, tok)
    /\ (Len(text) = Len(tok) \/ SubSeq(text, Len(tok) + 1, Len(tok) + 1) = " ")

Matches(step, text) == ~IsNil(FindStringSubmatchIndex(parserStrings[step], text))

Mandatory == {"station", "time", "wind", "visibility", "sky", "temp", "press"}

StepOfError(msg) ==
    CASE msg = "Error parsing station identifier" -> "station"
      [] msg \in {"Error parsing metar time", "Error parsing message time",
                  "Error converting day in metar", "Error converting hour in metar",
                  "Error converting minute in metar"} -> "time"
      [] msg \in {"Error parsing metar wind", "Error converting wind direction in metar",
                  "Error converting wind speed in metar",
                  "Error converting gust speed in metar",
                  "Error converting variable from wind direction in metar",
                  "Error converting variable to wind direction in metar"} -> "wind"
      [] msg \in {"Error parsing metar visibility",
                  "Error converting visibility value in metar"} -> "visibility"
      [] msg \in {"Error parsing metar sky",
                  "Error converting cloud height value in metar"} -> "sky"
      [] msg \in {"Error parsing metar temperature",
                  "Error converting temperature value in metar",
                  "Error converting dew point value in metar"} -> "temp"
      [] msg \in {"Error parsing metar pressure", "Error converting pressure value in metar",
                  "Error interpreting metar pressure value"} -> "press"
      [] OTHER -> "none"

\* the fields the step writes are as the call found them
Untouched(step) ==
    CASE step = "station" -> m.Station = m0.Station
      [] step = "time" -> m.Time = m0.Time
      [] step = "modifier" -> m.Mod = m0.Mod
      [] step = "wind" -> m.Wind = m0.Wind
      [] step = "visibility" -> m.Visibility = m0.Visibility
      [] step = "weather" -> m.Weather = m0.Weather
      [] step = "sky" -> m.Sky = m0.Sky
      [] step = "temp" -> m.Temp = m0.Temp /\ m.DewPt = m0.DewPt
      [] step = "press" -> m.Pressure = m0.Pressure
      [] OTHER -> TRUE

\* C1: when Parse returns an error the record is exactly as it was before the
\* call; no field written by an earlier step stays visible to the caller.
C1_RecordUntouchedOnError == Failed => m = m0

\* C2: a report that reaches the temperature step with a temperature group
\* whose dew-point part is absent makes Parse return an error; it never panics
\* on the dew-point group that did not match.
C2_MissingDewPointIsAnError ==
    (Ran(9) /\ AtGroup(trace[9].text, "M05/")) => Failed

\* C3: a successful Parse of a report whose time group the time pattern
\* accepts yields a time with the year and month of the reference date and
\* the day, hour and minute of the report, whatever two digits each has.
C3_TimeFromReportAndReference ==
    (Succeeded /\ input.date.valid /\ input.time.shaped
       /\ AtGroup(trace[3].text, input.time.txt))
    => m.Time = [year |-> input.date.y, month |-> input.date.mo,
                 day |-> input.time.d, hour |-> input.time.h, min |-> input.time.mi]

\* C4: a second successful Parse with the same two lines, made on the record
\* the first call filled, leaves a record identical to the first call's.
C4_SecondParseSameRecord == (Succeeded /\ calls >= 2) => m = first

\* C5: the steps run in the fixed order type, station, time, modifier, wind,
\* visibility, weather, sky, temp, press; a mandatory step whose pattern does
\* not match the text it is given is the last step to run and Parse returns
\* that step's error; the error returned is always that of the last step run;
\* the fields of the steps not run are untouched; and Parse returns nil only
\* after all ten steps, every mandatory one having matched.
C5_FirstFailingStepEndsParse ==
    /\ Len(trace) <= Len(StepOrder)
    /\ \A k \in 1..Len(trace) : trace[k].step = StepOrder[k]
    /\ pc \notin {"idle", "returned", "panic"} => pc = StepOrder[Len(trace) + 1]
    /\ pc \in {"returned", "panic"} =>
          /\ \A k \in 1..Len(trace) :
                (trace[k].step \in Mandatory /\ ~Matches(trace[k].step, trace[k].text))
                => (k = Len(trace) /\ Failed)
          /\ \A k \in (Len(trace) + 1)..Len(StepOrder) : Untouched(StepOrder[k])
    /\ Failed => StepOfError(err) = trace[Len(trace)].step
    /\ Succeeded => Len(trace) = Len(StepOrder)

C5_Witness ==
    /\ Failed
    /\ err = "Error parsing metar wind"
    /\ Len(trace) = 5
    /\ m.Station = "YSSY"

C7_Entry(w, g) ==
    /\ (w.Precip # "") # (w.Other # "")
    /\ w.Precip # "" => w.Precip = g.prec
    /\ w.Other # "" => (g.prec = "" /\ w.Other = g.obsc \o g.other)
    /\ w.Intens = g.int
    /\ w.Descr = g.desc

C7_WeatherFieldsByBranch ==
    (Ran(7) /\ calls = 1 /\ Len(input.wx) > 0 /\ AtGroup(trace[7].text, input.wx[1].txt))
    => (Len(m.Weather) > 0 /\ C7_Entry(m.Weather[1], input.wx[1]))

\* C8: a successful Parse into an empty record of a report with w weather
\* groups and then s sky layers between visibility and temperature yields w
\* Weather entries and s Sky entries, in the order of the groups.
C8_OneEntryPerGroup ==
    (Succeeded /\ calls = 1)
    => /\ Len(m.Weather) = Len(input.wx)
       /\ Len(m.Sky) = Len(input.sky)
       /\ \A k \in 1..Len(input.wx) : m.Weather[k].Intens = input.wx[k].int
       /\ \A k \in 1..Len(input.sky) :
             /\ m.Sky[k].Cover = input.sky[k].cover
             /\ m.Sky[k].Height = input.sky[k].height
             /\ m.Sky[k].Cloud = input.sky[k].cloud

\* C9: at the temperature step each of temperature and dew point is negative
\* exactly when its own text begins with the sign letter M (or "-"), whatever
\* the sign of the other, and its magnitude is the number its digits spell
\* (the step is given the group and the blank the pattern wants after it).
SignedValue(sign, n) == IF sign = "" THEN n ELSE 0 - n

C9_SignOfEachValue ==
    (Ran(9) /\ input.temp.regular /\ StartsWith(trace[9].text, input.temp.txt \o " "))
    => /\ pc # "panic" /\ ~(Len(trace) = 9 /\ Failed)
       /\ m.Temp = SignedValue(input.temp.ts, input.temp.tv)
       /\ m.DewPt = SignedValue(input.temp.ds, input.temp.dv)

C9_Witness ==
    /\ Ran(9)
    /\ AtGroup(trace[9].text, "M05/10")
    /\ m.Temp = 0 - 5
    /\ m.DewPt = 10

\* C10: text after the pressure group does not influence decoding: when the
\* report without it decodes to a record, the report with it decodes to the
\* same record.
C10_SameAs(base) ==
    (base.err = "" /\ ~base.panic) => (Succeeded /\ m = base.m)

C10_TrailingTextIgnored ==
    (pc \in {"returned", "panic"} /\ calls = 1)
    => C10_SameAs(Parse(Metar, Text([input EXCEPT !.trail = <<>>]), rawDate))
====
